---- MODULE Spec2Model ----
(***************************************************************************)
(* A model of pref_voting's social_welfare_function.py (the SWF wrapper)   *)
(* and generate_spatial_profiles.py (covariance builder and the two       *)
(* spatial profile generators).                                            *)
(*                                                                         *)
(* Two specifications share the module:                                    *)
(*   SpecSWF  one SWF object: construction, invocation, set_name, str      *)
(*   SpecGen  one call of generate_covariance, generate_spatial_profile    *)
(*            or generate_spatial_profile_polarized                        *)
(***************************************************************************)
EXTENDS Integers, Sequences, FiniteSets

VARIABLES
    self,     \* the SWF instance: its attribute dictionary
    hist,     \* what the caller did to it: constructor arguments, last set_name
    last,     \* the most recent operation on the SWF object and its outcome
    call,     \* the generator function called and its arguments
    result,   \* how that call ended: an exception or a returned value
    sampled   \* the calls to np.random.multivariate_normal made by that call

vars == <<self, hist, last, call, result, sampled>>

-----------------------------------------------------------------------------
(* Bounds of the model *)

MaxCands == 2      \* candidates of an election, and of curr_cands: 0 .. MaxCands-1
MaxDims == 2       \* n_dimensions, num_dims: up to MaxDims
MaxCount == 2      \* num_cands, num_voters and a cluster's count: 0 .. MaxCount
MaxProfiles == 2   \* num_profiles: 0 .. MaxProfiles
MaxClusters == 2   \* clusters in cand_clusters and in voter_clusters: 0 .. MaxClusters

-----------------------------------------------------------------------------
(* Python values *)

\* None, a string, or (for a dictionary) a key that is not there
None == [t |-> "none", v |-> ""]
PyStr(s) == [t |-> "str", v |-> s]
Absent == [t |-> "absent", v |-> ""]

\* format(value), as the f-string f"{value}" computes it
Format(x) == IF x.t = "none" THEN "None" ELSE x.v

\* a reference to a callable is its identity; NoRef: the attribute is not set
NoRef == "<unset>"

\* curr_cands: None or a list of candidates
NoneCands == [t |-> "none", v |-> <<>>]
PyList(s) == [t |-> "list", v |-> s]

\* the strictly increasing lists over 0 .. MaxCands-1, the empty one included
CandLists ==
    UNION { { s \in [1..n -> 0..(MaxCands - 1)] :
                \A i \in 1..n : \A j \in 1..n : i < j => s[i] < s[j] }
            : n \in 0..MaxCands }

CurrCandsValues == {NoneCands} \cup { PyList(s) : s \in CandLists }

\* election data: an object with a candidates attribute, or (has = FALSE) some
\* object without one
EDataValues ==
    { [has |-> TRUE, candidates |-> [i \in 1..n |-> i - 1]] : n \in 0..MaxCands }
    \cup { [has |-> FALSE, candidates |-> <<>>] }

\* extra keyword arguments: a set of (keyword, value) pairs
KwargsValues == { {}, {<<"algorithm", "basic">>} }

\* what a wrapped function may return: some ranking
InnerResults == { <<"a">>, <<"b", "a">> }

\* The callables that can be handed to SWF(...). Each has an identity, a
\* docstring and an attribute dictionary (__dict__), which for a plain function
\* is empty; an attribute of it may refer to the plain function "f".
WrappableDicts ==
    [swf : {NoRef, "f"}, name : {Absent, PyStr("W")}, vm : {NoRef, "f"}]

Wrappables == { [id |-> "w", doc |-> "doc of w", dict |-> d] : d \in WrappableDicts }

CtorNames == {None, PyStr("A")}
SetNames == {None, PyStr("A"), PyStr("B")}

-----------------------------------------------------------------------------
(* social_welfare_function.py: class SWF *)

\* no SWF object yet
NoObject ==
    [alive |-> FALSE, swf |-> NoRef, name |-> Absent, vm |-> NoRef,
     wrapped |-> NoRef, doc |-> ""]

\* functools.update_wrapper(wrapper, wrapped): copy the WRAPPER_ASSIGNMENTS
\* (__doc__ here), update wrapper.__dict__ with wrapped.__dict__, set __wrapped__
update_wrapper(wrapper, wrapped) ==
    [wrapper EXCEPT
        !.doc = wrapped.doc,
        !.swf = IF wrapped.dict.swf # NoRef THEN wrapped.dict.swf ELSE @,
        !.name = IF wrapped.dict.name.t # "absent" THEN wrapped.dict.name ELSE @,
        !.vm = IF wrapped.dict.vm # NoRef THEN wrapped.dict.vm ELSE @,
        !.wrapped = wrapped.id]

\* SWF.__init__(self, swf, name = None)
SWF_init(swf, name) ==
    update_wrapper([NoObject EXCEPT !.alive = TRUE, !.swf = swf.id, !.name = name],
                   swf)

\* the fast path taken only on election data without candidates
M_ShortCircuit_EdataOnly(edata, curr_cands) ==
    IF ~edata.has THEN "AttributeError"
    ELSE IF Len(edata.candidates) = 0 THEN "True" ELSE "False"

\* the fast path taken only on an empty curr_cands
M_ShortCircuit_CurrCandsOnly(edata, curr_cands) ==
    IF curr_cands.t # "none" /\ Len(curr_cands.v) = 0 THEN "True" ELSE "False"

\* The condition of the fast path in SWF.__call__,
\*   (curr_cands is not None and len(curr_cands) == 0) or len(edata.candidates) == 0
\* evaluated left to right: edata.candidates is read only when the left operand
\* of `or` is false, and reading it fails on an object that has no candidates.
ShortCircuit(edata, curr_cands) ==
    IF curr_cands.t # "none" /\ Len(curr_cands.v) = 0 THEN "True"
    ELSE IF ~edata.has THEN "AttributeError"
    ELSE IF Len(edata.candidates) = 0 THEN "True" ELSE "False"

\* SWF.__call__(self, edata, curr_cands = None, **kwargs), the callee returning r
\* when it is reached
SWF_call(obj, edata, curr_cands, kwargs, r) ==
    IF ShortCircuit(edata, curr_cands) = "AttributeError"
    THEN [kind |-> "AttributeError", val |-> <<>>, invoked |-> <<>>]
    ELSE IF ShortCircuit(edata, curr_cands) = "True"
    THEN [kind |-> "return", val |-> <<>>, invoked |-> <<>>]
    ELSE IF obj.vm = NoRef
    THEN [kind |-> "AttributeError", val |-> <<>>, invoked |-> <<>>]
    ELSE [kind |-> "return", val |-> r,
          invoked |-> << [callee |-> obj.vm, edata |-> edata,
                          curr_cands |-> curr_cands, kwargs |-> kwargs,
                          returned |-> r] >>]

\* SWF.set_name(self, new_name)
SWF_set_name(obj, new_name) == [obj EXCEPT !.name = new_name]

\* SWF.__str__(self)
SWF_str(obj) == Format(obj.name)

NoOp == [op |-> "none"]

InitSWFVars ==
    /\ self = NoObject
    /\ hist = [swf |-> NoRef, name |-> Absent, set |-> Absent]
    /\ last = NoOp

\* w = SWF(f, name), also written @swf(name) over the definition of f
Construct ==
    /\ ~self.alive
    /\ \E f \in Wrappables : \E n \in CtorNames :
          /\ self' = SWF_init(f, n)
          /\ hist' = [swf |-> f.id, name |-> n, set |-> Absent]
          /\ last' = [op |-> "init"]
    /\ UNCHANGED <<call, result, sampled>>

\* w(edata, curr_cands = c, **kwargs)
Invoke ==
    /\ self.alive
    /\ \E e \in EDataValues : \E c \in CurrCandsValues : \E k \in KwargsValues :
       \E r \in InnerResults :
          LET out == SWF_call(self, e, c, k, r) IN
          last' = [op |-> "call", edata |-> e, curr_cands |-> c, kwargs |-> k,
                   kind |-> out.kind, val |-> out.val, invoked |-> out.invoked]
    /\ UNCHANGED <<self, hist, call, result, sampled>>

\* w.set_name(new_name)
SetName ==
    /\ self.alive
    /\ \E n \in SetNames :
          /\ self' = SWF_set_name(self, n)
          /\ hist' = [hist EXCEPT !.set = n]
          /\ last' = [op |-> "set_name", arg |-> n]
    /\ UNCHANGED <<call, result, sampled>>

\* str(w)
Str ==
    /\ self.alive
    /\ last' = [op |-> "str", val |-> SWF_str(self)]
    /\ UNCHANGED <<self, hist, call, result, sampled>>

InitGenVars ==
    /\ call = [fn |-> "none"]
    /\ result = [kind |-> "none"]
    /\ sampled = <<>>

InitSWF == InitSWFVars /\ InitGenVars

NextSWF == Construct \/ Invoke \/ SetName \/ Str

SpecSWF == InitSWF /\ [][NextSWF]_vars

-----------------------------------------------------------------------------
(* Numbers: exact rationals <<numerator, denominator>>, denominator > 0 *)

RInt(n) == <<n, 1>>
RAdd(a, b) == <<a[1] * b[2] + b[1] * a[2], a[2] * b[2]>>
RSub(a, b) == <<a[1] * b[2] - b[1] * a[2], a[2] * b[2]>>
RMul(a, b) == <<a[1] * b[1], a[2] * b[2]>>
REq(a, b) == a[1] * b[2] = b[1] * a[2]
RLt(a, b) == a[1] * b[2] < b[1] * a[2]
RLe(a, b) == a[1] * b[2] <= b[1] * a[2]

(* numpy arrays of two axes: the shape and the entries *)

Matrix(r, c, f) ==
    [rows |-> r, cols |-> c, at |-> [i \in 1..r |-> [j \in 1..c |-> f[<<i, j>>]]]]

\* the index pairs of an r x c array
Cells(r, c) == (1..r) \X (1..c)

\* np.eye(n, m): ones on the diagonal, zeros elsewhere
eye2(n, m) ==
    Matrix(n, m, [x \in Cells(n, m) |-> IF x[1] = x[2] THEN RInt(1) ELSE RInt(0)])

\* np.eye(n)
eye(n) == eye2(n, n)

\* np.ones((n, m))
ones(n, m) == Matrix(n, m, [x \in Cells(n, m) |-> RInt(1)])

\* elementwise a + b, a - b and scalar * a (operands of the same shape)
MatAdd(a, b) ==
    Matrix(a.rows, a.cols,
           [x \in Cells(a.rows, a.cols) |-> RAdd(a.at[x[1]][x[2]], b.at[x[1]][x[2]])])
MatSub(a, b) ==
    Matrix(a.rows, a.cols,
           [x \in Cells(a.rows, a.cols) |-> RSub(a.at[x[1]][x[2]], b.at[x[1]][x[2]])])
MatScale(k, a) ==
    Matrix(a.rows, a.cols,
           [x \in Cells(a.rows, a.cols) |-> RMul(k, a.at[x[1]][x[2]])])

\* an optional array argument: None, or the array
NoneCov == [t |-> "none", m |-> eye(0)]
SomeCov(m) == [t |-> "array", m |-> m]

Raise(exception) == [kind |-> exception, shape |-> "none", val |-> <<>>]
Return(shape, val) == [kind |-> "return", shape |-> shape, val |-> val]

-----------------------------------------------------------------------------
(* generate_spatial_profiles.py: generate_covariance *)

\* generate_covariance computing the off-diagonal entries without "- np.eye"
M_generate_covariance_NoSubtract(n_dimensions, std, rho) ==
    IF ~RLt(RInt(0), std) THEN Raise("AssertionError")
    ELSE IF ~(RLe(RInt(0), rho) /\ RLe(rho, RInt(1))) THEN Raise("AssertionError")
    ELSE IF ~(n_dimensions > 0) THEN Raise("AssertionError")
    ELSE Return("matrix",
            MatScale(RMul(std, std),
                     MatAdd(eye(n_dimensions),
                            MatScale(rho, ones(n_dimensions, n_dimensions)))))

\* generate_covariance clamping rho into [0, 1] in place of the assertion on it
M_generate_covariance_Clamp(n_dimensions, std, rho) ==
    LET clamped == IF RLt(rho, RInt(0)) THEN RInt(0)
                   ELSE IF RLt(RInt(1), rho) THEN RInt(1) ELSE rho IN
    IF ~RLt(RInt(0), std) THEN Raise("AssertionError")
    ELSE IF ~(n_dimensions > 0) THEN Raise("AssertionError")
    ELSE Return("matrix",
            MatScale(RMul(std, std),
                     MatAdd(eye(n_dimensions),
                            MatScale(clamped,
                                     MatSub(ones(n_dimensions, n_dimensions),
                                            eye(n_dimensions))))))

\* generate_covariance(n_dimensions, std, rho)
generate_covariance(n_dimensions, std, rho) ==
    IF ~RLt(RInt(0), std) THEN Raise("AssertionError")
    ELSE IF ~(RLe(RInt(0), rho) /\ RLe(rho, RInt(1))) THEN Raise("AssertionError")
    ELSE IF ~(n_dimensions > 0) THEN Raise("AssertionError")
    ELSE Return("matrix",
            MatScale(RMul(std, std),
                     MatAdd(eye(n_dimensions),
                            MatScale(rho,
                                     MatSub(ones(n_dimensions, n_dimensions),
                                            eye(n_dimensions))))))

-----------------------------------------------------------------------------
(* np.random.multivariate_normal and the arrays of three axes it returns *)

\* An array of shape (P, n, d): at[p][k] is a point, a vector of d coordinates,
\* p in 0 .. P-1 and k in 0 .. n-1. A drawn coordinate is a random variable; it
\* is named by the draw (the position of the sampler call among the calls of
\* this run), the batch p, the item k and the axis.
Array3(P, n, d, f) ==
    [isArray |-> TRUE, P |-> P, n |-> n, d |-> d,
     at |-> [p \in 0..(P - 1) |-> [k \in 0..(n - 1) |-> f[<<p, k>>]]]]

\* the index pairs of the first two axes
Points(P, n) == (0..(P - 1)) \X (0..(n - 1))

\* list()
EmptyList == [isArray |-> FALSE, P |-> 0, n |-> 0, d |-> 0, at |-> <<>>]

\* len(x): the length of a list, the first axis of an array
PyLen(x) == IF x.isArray THEN x.P ELSE 0

\* np.random.multivariate_normal(mean, cov, size = (P, n)), as draw number `draw`
multivariate_normal(mean, cov, P, n, draw) ==
    IF cov.rows # cov.cols \/ cov.rows # Len(mean) \/ P < 0 \/ n < 0
    THEN [exc |-> "ValueError", arr |-> EmptyList]
    ELSE [exc |-> "none",
          arr |-> Array3(P, n, Len(mean),
                    [x \in Points(P, n) |->
                        [axis \in 1..Len(mean) |->
                            [draw |-> draw, batch |-> x[1], item |-> x[2],
                             axis |-> axis]]])]

\* np.concatenate([a, b], axis = 1)
concatenate(a, b) ==
    Array3(a.P, a.n + b.n, a.d,
           [x \in Points(a.P, a.n + b.n) |->
               IF x[2] < a.n THEN a.at[x[1]][x[2]] ELSE b.at[x[1]][x[2] - a.n]])

\* the entry of the sampler log for one call
Drawn(mean, cov, P, n) == [mean |-> mean, cov |-> cov, size |-> <<P, n>>]

\* the mapping built over range(count - 1)
M_Mapping_OneShort(samples, pidx, count) ==
    [i \in 0..(count - 2) |-> samples.at[pidx][i]]

\* {i: samples[pidx][i] for i in range(count)}
Mapping(samples, pidx, count) == [i \in 0..(count - 1) |-> samples.at[pidx][i]]

\* samples[pidx][i] exists for every i in range(count)
Indexable(samples, pidx, count) ==
    count > 0 => (samples.isArray /\ pidx < samples.P /\ count <= samples.n)

\* [SpatialProfile({...}, {...}) for pidx in range(num_profiles)]
Profiles(cand_samples, num_cands, voter_samples, num_voters, num_profiles) ==
    [pidx \in 0..(num_profiles - 1) |->
        [cands |-> Mapping(cand_samples, pidx, num_cands),
         voters |-> Mapping(voter_samples, pidx, num_voters)]]

\* the list returned whatever num_profiles is
M_ReturnShape_AlwaysList(profs, num_profiles) == [kind |-> "return", shape |-> "list", val |-> profs]

\* profs[0] if num_profiles == 1 else profs
ReturnShape(profs, num_profiles) ==
    IF num_profiles = 1 THEN Return("profile", profs[0]) ELSE Return("list", profs)

\* the last two statements of both generators
Assemble(cand_samples, num_cands, voter_samples, num_voters, num_profiles) ==
    IF \E pidx \in 0..(num_profiles - 1) :
           \/ ~Indexable(cand_samples, pidx, num_cands)
           \/ ~Indexable(voter_samples, pidx, num_voters)
    THEN Raise("IndexError")
    ELSE ReturnShape(Profiles(cand_samples, num_cands, voter_samples, num_voters,
                              num_profiles),
                     num_profiles)

-----------------------------------------------------------------------------
(* generate_spatial_profiles.py: generate_spatial_profile *)

\* cov = np.eye(num_dims) if cov is None else cov
DefaultCov(num_dims, cov) == IF cov.t = "none" THEN eye(num_dims) ELSE cov.m

\* only the number of rows compared with num_dims
M_CovShapeOK_RowsOnly(num_dims, cov) == num_dims = cov.rows

\* num_dims == cov.shape[0] == cov.shape[1]
CovShapeOK(num_dims, cov) == num_dims = cov.rows /\ cov.rows = cov.cols

\* generate_spatial_profile(num_cands, num_voters, num_dims, cand_cov, voter_cov,
\* num_profiles), cand_cov and voter_cov written ccov and vcov: the outcome and
\* the sampler calls made
generate_spatial_profile(num_cands, num_voters, num_dims, ccov, vcov, num_profiles) ==
    LET cand_cov == DefaultCov(num_dims, ccov)
        voter_cov == DefaultCov(num_dims, vcov)
        mean == [i \in 1..num_dims |-> 0]
        cand_draw == multivariate_normal(mean, cand_cov, num_profiles, num_cands, 1)
        voter_draw == multivariate_normal(mean, voter_cov, num_profiles, num_voters, 2)
        cand_log == << Drawn(mean, cand_cov, num_profiles, num_cands) >>
        voter_log == << Drawn(mean, voter_cov, num_profiles, num_voters) >>
    IN  IF ~CovShapeOK(num_dims, cand_cov)
        THEN [out |-> Raise("AssertionError"), log |-> <<>>]
        ELSE IF ~CovShapeOK(num_dims, voter_cov)
        THEN [out |-> Raise("AssertionError"), log |-> <<>>]
        ELSE IF cand_draw.exc # "none"
        THEN [out |-> Raise(cand_draw.exc), log |-> cand_log]
        ELSE IF voter_draw.exc # "none"
        THEN [out |-> Raise(voter_draw.exc), log |-> cand_log \o voter_log]
        ELSE [out |-> Assemble(cand_draw.arr, num_cands, voter_draw.arr, num_voters,
                               num_profiles),
              log |-> cand_log \o voter_log]

-----------------------------------------------------------------------------
(* generate_spatial_profiles.py: generate_spatial_profile_polarized *)

\* the new cluster put in front: np.concatenate([cluster_samples, samples], axis=1)
M_Accumulate_Prepend(samples, cluster_samples) ==
    IF PyLen(samples) = 0 THEN cluster_samples ELSE concatenate(cluster_samples, samples)

\* if len(samples) == 0: samples = cluster_samples
\* else: samples = np.concatenate([samples, cluster_samples], axis=1)
Accumulate(samples, cluster_samples) ==
    IF PyLen(samples) = 0 THEN cluster_samples ELSE concatenate(samples, cluster_samples)

\* one of the two loops over a cluster list, after its first j clusters; the
\* sampler has been called `base` times before the loop
RECURSIVE ClusterLoop(_, _, _, _)
ClusterLoop(clusters, num_profiles, base, j) ==
    IF j = 0
    THEN [samples |-> EmptyList, total |-> 0, log |-> <<>>, exc |-> "none"]
    ELSE LET prev == ClusterLoop(clusters, num_profiles, base, j - 1)
             c == clusters[j]
             draw == multivariate_normal(c.mean, c.cov, num_profiles, c.count,
                                         base + j)
             log == Append(prev.log, Drawn(c.mean, c.cov, num_profiles, c.count))
         IN  IF prev.exc # "none" THEN prev
             ELSE IF draw.exc # "none"
             THEN [samples |-> prev.samples, total |-> prev.total + c.count,
                   log |-> log, exc |-> draw.exc]
             ELSE IF PyLen(prev.samples) # 0
                     /\ (prev.samples.P # draw.arr.P \/ prev.samples.d # draw.arr.d)
             THEN [samples |-> prev.samples, total |-> prev.total + c.count,
                   log |-> log, exc |-> "ValueError"]
             ELSE [samples |-> Accumulate(prev.samples, draw.arr),
                   total |-> prev.total + c.count, log |-> log, exc |-> "none"]

\* generate_spatial_profile_polarized(cand_clusters, voter_clusters, num_profiles):
\* the outcome and the sampler calls made
generate_spatial_profile_polarized(cand_clusters, voter_clusters, num_profiles) ==
    LET cl == ClusterLoop(cand_clusters, num_profiles, 0, Len(cand_clusters))
        vl == ClusterLoop(voter_clusters, num_profiles, Len(cl.log),
                          Len(voter_clusters))
    IN  IF cl.exc # "none" THEN [out |-> Raise(cl.exc), log |-> cl.log]
        ELSE IF vl.exc # "none" THEN [out |-> Raise(vl.exc), log |-> cl.log \o vl.log]
        ELSE [out |-> Assemble(cl.samples, cl.total, vl.samples, vl.total,
                               num_profiles),
              log |-> cl.log \o vl.log]

-----------------------------------------------------------------------------
(* The inputs of the generator calls *)

\* std and rho: valid and invalid values
StdValues == { <<-1, 1>>, <<0, 1>>, <<1, 2>>, <<1, 1>>, <<2, 1>>, <<3, 2>> }
RhoValues == { <<-1, 2>>, <<0, 1>>, <<1, 3>>, <<1, 2>>, <<1, 1>>, <<3, 2>> }
DimValues == (-1)..MaxDims

\* covariance arguments: omitted, or an array of any shape up to MaxDims x MaxDims
CovValues == {NoneCov} \cup { SomeCov(eye2(r, c)) : r \in 1..MaxDims, c \in 1..MaxDims }

\* num_profiles: -1 is refused by the sampler
ProfileCounts == (-1)..MaxProfiles

\* the counts of the clusters of one list
CountLists == UNION { [1..n -> 0..MaxCount] : n \in 0..MaxClusters }

\* a polarized population in d dimensions: blocs with means alternating
\* between -5 and +5 on every axis, unit covariance, and the given counts
Clusters(counts, d) ==
    [j \in 1..Len(counts) |->
        [mean |-> [i \in 1..d |-> IF j % 2 = 1 THEN -5 ELSE 5],
         cov |-> eye(d), count |-> counts[j]]]

-----------------------------------------------------------------------------
(* One call of a generator function *)

CallCovariance ==
    /\ call.fn = "none"
    /\ \E n \in DimValues : \E std \in StdValues : \E rho \in RhoValues :
          /\ call' = [fn |-> "generate_covariance", n_dimensions |-> n,
                      std |-> std, rho |-> rho]
          /\ result' = generate_covariance(n, std, rho)
          /\ sampled' = <<>>
    /\ UNCHANGED <<self, hist, last>>

CallSpatialProfile ==
    /\ call.fn = "none"
    /\ \E nc \in 0..MaxCount : \E nv \in 0..MaxCount : \E d \in 1..MaxDims :
       \E cc \in CovValues : \E vc \in CovValues : \E P \in ProfileCounts :
          LET r == generate_spatial_profile(nc, nv, d, cc, vc, P) IN
          /\ call' = [fn |-> "generate_spatial_profile", num_cands |-> nc,
                      num_voters |-> nv, num_dims |-> d, cand_cov |-> cc,
                      voter_cov |-> vc, num_profiles |-> P]
          /\ result' = r.out
          /\ sampled' = r.log
    /\ UNCHANGED <<self, hist, last>>

CallPolarized ==
    /\ call.fn = "none"
    /\ \E ccounts \in CountLists : \E vcounts \in CountLists : \E d \in 1..MaxDims :
       \E P \in ProfileCounts :
          LET cs == Clusters(ccounts, d)
              vs == Clusters(vcounts, d)
              r == generate_spatial_profile_polarized(cs, vs, P) IN
          /\ call' = [fn |-> "generate_spatial_profile_polarized",
                      cand_clusters |-> cs, voter_clusters |-> vs,
                      num_profiles |-> P]
          /\ result' = r.out
          /\ sampled' = r.log
    /\ UNCHANGED <<self, hist, last>>

InitGen == InitSWFVars /\ InitGenVars

NextGen == CallCovariance \/ CallSpatialProfile \/ CallPolarized

SpecGen == InitGen /\ [][NextGen]_vars

-----------------------------------------------------------------------------
(* Properties of the SWF wrapper, under SpecSWF *)

IsCall == last.op = "call"
EmptyCurrCands == last.curr_cands.t = "list" /\ Len(last.curr_cands.v) = 0
NoCandidates == last.edata.has /\ Len(last.edata.candidates) = 0
HasCandidates == last.edata.has /\ Len(last.edata.candidates) > 0
FastPathResult == last.kind = "return" /\ last.val = <<>> /\ last.invoked = <<>>

\* C1: a call with election data of at least one candidate and curr_cands None
\* or non-empty calls the wrapped function (the swf given to the constructor)
\* exactly once, with the same edata, curr_cands and keyword arguments, and
\* returns what that call returned.
C1_Delegates ==
    (IsCall /\ HasCandidates /\ ~EmptyCurrCands) =>
        /\ last.kind = "return"
        /\ Len(last.invoked) = 1
        /\ last.invoked[1].callee = hist.swf
        /\ last.invoked[1].edata = last.edata
        /\ last.invoked[1].curr_cands = last.curr_cands
        /\ last.invoked[1].kwargs = last.kwargs
        /\ last.val = last.invoked[1].returned

\* C2: a call with curr_cands supplied and empty returns the empty result and
\* invokes nothing, whatever the election data (an object without candidates
\* included).
C2_EmptyCurrCandsFastPath == (IsCall /\ EmptyCurrCands) => FastPathResult

\* C2 happens: an empty curr_cands with election data that has candidates, on a
\* wrapper whose delegation would have reached a callable
C2_Witness ==
    /\ IsCall /\ EmptyCurrCands /\ HasCandidates
    /\ self.vm # NoRef
    /\ FastPathResult

\* C3: a call with election data of zero candidates returns the empty result
\* and invokes nothing, for curr_cands None, empty or non-empty.
C3_NoCandidatesFastPath == (IsCall /\ NoCandidates) => FastPathResult

\* C3 happens: no candidates and a non-empty curr_cands, on a wrapper whose
\* delegation would have reached a callable
C3_Witness ==
    /\ IsCall /\ NoCandidates
    /\ last.curr_cands.t = "list" /\ Len(last.curr_cands.v) > 0
    /\ self.vm # NoRef
    /\ FastPathResult

\* C10: str(wrapper) is the argument of the most recent set_name, or the name
\* given to the constructor when set_name was never called ("None" for no
\* name); a set_name leaves the wrapped function as it was.
C10_NameTracksCaller ==
    self.alive =>
        /\ SWF_str(self) =
              (IF hist.set.t = "absent" THEN
                  (IF hist.name.t = "none" THEN "None" ELSE hist.name.v)
               ELSE IF hist.set.t = "none" THEN "None" ELSE hist.set.v)
        /\ self.wrapped = hist.swf

-----------------------------------------------------------------------------
(* Properties of the generators, under SpecGen *)

IsCovariance == call.fn = "generate_covariance"
IsSingle == call.fn = "generate_spatial_profile"
IsPolarized == call.fn = "generate_spatial_profile_polarized"

ValidCovarianceArgs ==
    /\ call.n_dimensions > 0
    /\ RLt(RInt(0), call.std)
    /\ RLe(RInt(0), call.rho) /\ RLe(call.rho, RInt(1))

\* C4: for n_dimensions > 0, std > 0 and 0 <= rho <= 1 the result is an
\* n x n matrix with std^2 on the diagonal and std^2 * rho elsewhere, hence
\* symmetric.
C4_CompoundSymmetry ==
    (IsCovariance /\ ValidCovarianceArgs) =>
        /\ result.kind = "return"
        /\ result.val.rows = call.n_dimensions
        /\ result.val.cols = call.n_dimensions
        /\ \A i \in 1..call.n_dimensions : \A j \in 1..call.n_dimensions :
              /\ i = j => REq(result.val.at[i][j], RMul(call.std, call.std))
              /\ i # j => REq(result.val.at[i][j],
                              RMul(RMul(call.std, call.std), call.rho))
              /\ REq(result.val.at[i][j], result.val.at[j][i])

\* C4 happens: a matrix with off-diagonal entries that differ from the diagonal
C4_Witness ==
    /\ IsCovariance /\ ValidCovarianceArgs
    /\ call.n_dimensions >= 2
    /\ RLt(RInt(0), call.rho) /\ RLt(call.rho, RInt(1))
    /\ result.kind = "return"

\* C5: with std <= 0, rho < 0, rho > 1 or n_dimensions <= 0 the call ends in an
\* assertion error and returns no matrix.
C5_InvalidArgsRaise ==
    (IsCovariance /\ ~ValidCovarianceArgs) =>
        result.kind = "AssertionError" /\ result.shape = "none"

\* C5 happens: rho above 1 with the other arguments valid
C5_Witness ==
    /\ IsCovariance
    /\ call.n_dimensions > 0 /\ RLt(RInt(0), call.std) /\ RLt(RInt(1), call.rho)
    /\ result.kind = "AssertionError"

\* a covariance argument of generate_spatial_profile that is supplied with a
\* number of rows or of columns other than num_dims
BadShape(cov) ==
    cov.t = "array" /\ (cov.m.rows # call.num_dims \/ cov.m.cols # call.num_dims)

\* the arguments of the profile generators within their domain
ValidProfileArgs ==
    /\ call.num_profiles >= 0
    /\ IsSingle => (~BadShape(call.cand_cov) /\ ~BadShape(call.voter_cov))

\* the profiles of a result
ProfilesOf(r) ==
    IF r.shape = "profile" THEN {r.val}
    ELSE IF r.shape = "list" THEN { r.val[p] : p \in DOMAIN r.val }
    ELSE {}

\* the sampler calls that drew candidates, and those that drew voters
CandDraws == IF IsSingle THEN {1} ELSE 1..Len(call.cand_clusters)
VoterDraws == IF IsSingle THEN {2} ELSE (Len(call.cand_clusters) + 1)..Len(sampled)

\* every point of the profile comes from batch p: candidates from a candidate
\* draw, voters from a voter draw
FromBatch(prof, p) ==
    /\ \A c \in DOMAIN prof.cands : \A a \in DOMAIN prof.cands[c] :
          prof.cands[c][a].batch = p /\ prof.cands[c][a].draw \in CandDraws
    /\ \A v \in DOMAIN prof.voters : \A a \in DOMAIN prof.voters[v] :
          prof.voters[v][a].batch = p /\ prof.voters[v][a].draw \in VoterDraws

\* C6: both generators return a single profile when num_profiles = 1 and
\* otherwise a sequence of num_profiles profiles (num_profiles >= 0), the one
\* at position p built from the p-th batch of candidate and voter points.
C6_ReturnShape ==
    ((IsSingle \/ IsPolarized) /\ ValidProfileArgs) =>
        /\ result.kind = "return"
        /\ IF call.num_profiles = 1
           THEN result.shape = "profile" /\ FromBatch(result.val, 0)
           ELSE /\ result.shape = "list"
                /\ DOMAIN result.val = 0..(call.num_profiles - 1)
                /\ \A p \in DOMAIN result.val : FromBatch(result.val[p], p)

\* C6 happens: the polarized generator returning two non-empty profiles
C6_Witness ==
    /\ IsPolarized /\ call.num_profiles = 2
    /\ result.kind = "return" /\ result.shape = "list"
    /\ \A p \in 0..1 : result.val[p].cands # <<>> /\ result.val[p].voters # <<>>

\* count_1 + ... + count_j
RECURSIVE CountUpTo(_, _)
CountUpTo(clusters, j) ==
    IF j = 0 THEN 0 ELSE CountUpTo(clusters, j - 1) + clusters[j].count

\* the clusters whose index range holds i
ClustersAt(clusters, i) ==
    { j \in 1..Len(clusters) :
        CountUpTo(clusters, j - 1) <= i /\ i < CountUpTo(clusters, j) }

\* the mapping has the keys 0 .. total-1, and the point at key i was drawn for
\* the one cluster whose range holds i, by the sampler call number base + j
\* made with that cluster's mean and count
ClusterOrder(mapping, clusters, base) ==
    /\ DOMAIN mapping = 0..(CountUpTo(clusters, Len(clusters)) - 1)
    /\ \A i \in DOMAIN mapping :
          /\ Cardinality(ClustersAt(clusters, i)) = 1
          /\ \A j \in ClustersAt(clusters, i) : \A a \in DOMAIN mapping[i] :
                /\ mapping[i][a].draw = base + j
                /\ sampled[base + j].mean = clusters[j].mean
                /\ sampled[base + j].size[2] = clusters[j].count
                /\ mapping[i][a].item \in 0..(clusters[j].count - 1)

\* C7: every profile of the polarized generator has count_0 + ... + count_k-1
\* candidates (voters) keyed 0 .. total-1, the point at index i being one drawn
\* for the cluster whose range of indices holds i; clusters of count 0 and
\* empty cluster lists included.
C7_ClusterOrder ==
    (IsPolarized /\ ValidProfileArgs) =>
        /\ result.kind = "return"
        /\ \A prof \in ProfilesOf(result) :
              /\ ClusterOrder(prof.cands, call.cand_clusters, 0)
              /\ ClusterOrder(prof.voters, call.voter_clusters,
                              Len(call.cand_clusters))

\* C7 happens: a profile from two candidate clusters, both with points, and two
\* voter clusters, the first of them empty
C7_Witness ==
    /\ IsPolarized /\ call.num_profiles >= 1 /\ result.kind = "return"
    /\ Len(call.cand_clusters) = 2
    /\ call.cand_clusters[1].count > 0 /\ call.cand_clusters[2].count > 0
    /\ Len(call.voter_clusters) = 2
    /\ call.voter_clusters[1].count = 0 /\ call.voter_clusters[2].count > 0

\* C8: generate_spatial_profile with a supplied cand_cov or voter_cov whose
\* number of rows or of columns differs from num_dims ends in an assertion
\* error before any point is drawn, and returns no profile.
C8_BadShapeRaises ==
    (IsSingle /\ (BadShape(call.cand_cov) \/ BadShape(call.voter_cov))) =>
        /\ result.kind = "AssertionError"
        /\ result.shape = "none"
        /\ sampled = <<>>

\* C8 happens: a voter_cov with num_dims rows and another number of columns,
\* beside a cand_cov of the right shape
C8_Witness ==
    /\ IsSingle
    /\ ~BadShape(call.cand_cov)
    /\ call.voter_cov.t = "array"
    /\ call.voter_cov.m.rows = call.num_dims
    /\ call.voter_cov.m.cols # call.num_dims
    /\ call.num_profiles >= 1
    /\ result.kind = "AssertionError"

\* m is the n x n identity matrix
IsIdentity(m, n) ==
    /\ m.rows = n /\ m.cols = n
    /\ \A i \in 1..n : \A j \in 1..n :
          REq(m.at[i][j], IF i = j THEN RInt(1) ELSE RInt(0))

\* C9: every profile of generate_spatial_profile (num_cands, num_voters >= 0,
\* num_dims > 0, valid covariances) has candidate keys 0 .. num_cands-1 and
\* voter keys 0 .. num_voters-1, every value a vector of length num_dims; an
\* omitted covariance is the num_dims x num_dims identity.
C9_DenseKeys ==
    (IsSingle /\ ValidProfileArgs) =>
        /\ result.kind = "return"
        /\ Cardinality(ProfilesOf(result)) >= (IF call.num_profiles = 0 THEN 0 ELSE 1)
        /\ \A prof \in ProfilesOf(result) :
              /\ DOMAIN prof.cands = 0..(call.num_cands - 1)
              /\ DOMAIN prof.voters = 0..(call.num_voters - 1)
              /\ \A c \in DOMAIN prof.cands : Len(prof.cands[c]) = call.num_dims
              /\ \A v \in DOMAIN prof.voters : Len(prof.voters[v]) = call.num_dims
        /\ Len(sampled) = 2
        /\ call.cand_cov.t = "none" => IsIdentity(sampled[1].cov, call.num_dims)
        /\ call.voter_cov.t = "none" => IsIdentity(sampled[2].cov, call.num_dims)

\* C9 happens: default covariances, two dimensions, a profile with candidates
\* and voters
C9_Witness ==
    /\ IsSingle /\ result.kind = "return" /\ result.shape = "profile"
    /\ call.cand_cov.t = "none" /\ call.voter_cov.t = "none"
    /\ call.num_dims = 2 /\ call.num_cands = 2 /\ call.num_voters = 1

====
